---- MODULE Spec2Model ----
(***************************************************************************)
(* Model of the CSV import / edit / submit application.                    *)
(*                                                                         *)
(* The main specification, Spec, models the most complete variant of the   *)
(* component (src/unnamed/part_001): the React state of App, the pending   *)
(* FileReaders created by handleParse, and the handleSendData coroutines   *)
(* suspended at "await sendData(...)".  Every action is one macro-task of  *)
(* the browser's event loop: an event handler, a FileReader onload, or the *)
(* settling of an axios request together with the continuation of the      *)
(* async function that awaited it.                                         *)
(*                                                                         *)
(* Strings are sequences of tokens, so that String.prototype.trim is       *)
(* computed and not assumed.  Objects are sequences of <<key, value>>      *)
(* pairs in insertion order, as Object.keys / Object.values see them.      *)
(* Array indices are 1-based here and 0-based in the source.               *)
(***************************************************************************)
EXTENDS Integers, Sequences, FiniteSets

VARIABLES
    data,                    \* useState<DataWithStatus[]>        part_001:19
    error,                   \* useState<string>                  part_001:23
    addAssetButtonName,      \* useState<string>("Add Assets")    part_001:26
    disableAssetButtonName,  \* useState<boolean>(false)          part_001:30
    file,                    \* useState<File | null>: 0 is null  part_001:34
    showResultButton,        \* useState<string>("none")          part_001:37
    readers,                 \* FileReaders whose onload has not fired yet
    runs,                    \* handleSendData invocations (awaiting or ended)
    mounted,                 \* the component is mounted
    listeners,               \* the listeners registered on window
    nSelect,                 \* number of change events of the file input
    nClicks,                 \* number of clicks on the submit button
    nEdits,                  \* number of cell edits
    last                     \* the macro-task that led to this state

vars == <<data, error, addAssetButtonName, disableAssetButtonName, file,
          showResultButton, readers, runs, mounted, listeners, nSelect,
          nClicks, nEdits, last>>

----------------------------------------------------------------------------
(* Bounds of the model *)

MaxSelect == 2
MaxClicks == 2
MaxEdits == 1

----------------------------------------------------------------------------
(* Strings *)

S(tok) == <<tok>>
Empty == <<>>
Blank == " "

\* String.prototype.trim: drops leading and trailing whitespace
RECURSIVE TrimLeft(_)
TrimLeft(s) ==
    IF s # <<>> /\ Head(s) = Blank THEN TrimLeft(Tail(s)) ELSE s

RECURSIVE TrimRight(_)
TrimRight(s) ==
    IF s # <<>> /\ s[Len(s)] = Blank
    THEN TrimRight(SubSeq(s, 1, Len(s) - 1))
    ELSE s

Trim(s) == TrimRight(TrimLeft(s))

\* status strings
NotStarted == S("Not Started")
InProgress == S("In Progress")
Success == S("Success")
Failed == S("Failed")
DataIncorrect == S("Data Incorrect")

\* error messages
NoError == ""
ErrNotCsv == "Please input a csv file"
ErrHeaders ==
    "Please input a valid csv file with Triplet Id, Asset Id, Asset Type in the file"

----------------------------------------------------------------------------
(* Objects: sequences of <<key, value>> in insertion order *)

Keys(rec) == [n \in 1..Len(rec) |-> rec[n][1]]
Values(rec) == [n \in 1..Len(rec) |-> rec[n][2]]
Has(rec, k) == \E n \in 1..Len(rec) : rec[n][1] = k
Get(rec, k) == rec[CHOOSE n \in 1..Len(rec) : rec[n][1] = k][2]

\* { ...rec, [k]: v }: an existing key keeps its position, a new one is last
Put(rec, k, v) ==
    IF Has(rec, k)
    THEN [n \in 1..Len(rec) |-> IF rec[n][1] = k THEN <<k, v>> ELSE rec[n]]
    ELSE Append(rec, <<k, v>>)

Status(rec) == Get(rec, "status")

----------------------------------------------------------------------------
(* The files the user can select: MIME type and what Papa.parse returns    *)
(* for the content with header: true, skipEmptyLines: true                 *)

Rec(t, a, ty) == << <<"Triplet Id", t>>, <<"Asset Id", a>>, <<"Asset Type", ty>> >>

TextCsv == <<"text", "csv">>

Files == <<
    \* 1: Triplet Id,Asset Id,Asset Type\n1,101,SYSTEM\n2,102,BOGUS_TYPE
    [type |-> TextCsv,
     rows |-> << Rec(S("1"), S("101"), S("SYSTEM")),
                 Rec(S("2"), S("102"), S("BOGUS_TYPE")) >>],
    \* 2: status,Asset Type,Triplet Id,Asset Id
    \*    Done,SYSTEM, ,"103,B"
    \*    Done, SUPPLIER_SERVICE
    \*    a file with a status column of its own; a row with a blank Triplet
    \*    Id and a quoted Asset Id; a line shorter than the header, whose
    \*    record has no Triplet Id and no Asset Id key, with a padded type
    [type |-> TextCsv,
     rows |-> << << <<"status", S("Done")>>, <<"Asset Type", S("SYSTEM")>>,
                    <<"Triplet Id", <<Blank>> >>,
                    <<"Asset Id", <<"103", ",", "B">> >> >>,
                 << <<"status", S("Done")>>,
                    <<"Asset Type", <<Blank, "SUPPLIER_SERVICE", Blank>> >> >> >>],
    \* 3: Triplet Id,Asset Id,Name\n7,107,Pump: the Asset Type column is missing
    [type |-> TextCsv,
     rows |-> << << <<"Triplet Id", S("7")>>, <<"Asset Id", S("107")>>,
                    <<"Name", S("Pump")>> >> >>],
    \* 4: the empty file
    [type |-> TextCsv, rows |-> << >>],
    \* 5: a text file
    [type |-> <<"text", "plain">>,
     rows |-> << Rec(S("1"), S("101"), S("SYSTEM")) >>],
    \* 6: a file of unknown type (File.type is "")
    [type |-> <<"">>,
     rows |-> << Rec(S("1"), S("101"), S("SYSTEM")) >>]
>>

FileIds == 1..Len(Files)
NoFile == 0

\* the edits the user makes: a cell key and the value typed into it
Edits == { <<"Triplet Id", Empty>>, <<"Asset Type", S("SYSTEM")>> }

----------------------------------------------------------------------------
(* handleFileChange *)

allowedExtensions == {"csv"}

\* inputFile.type.split("/")[1], "undefined" when there is no second part
fileExtension(f) ==
    IF Len(Files[f].type) >= 2 THEN Files[f].type[2] ELSE "undefined"

\* mutation: the type check looks at the first part of the MIME type
TypeAllowedAnyText(f) == Files[f].type[1] = "text"

TypeAllowed(f) == fileExtension(f) \in allowedExtensions

\* a state array replaced by setData is no longer the array any closure holds
Stale(rds) == [n \in 1..Len(rds) |-> [rds[n] EXCEPT !.cur = FALSE]]

\* history: a file was accepted while these runs were under way
Superseded(rs) == [n \in 1..Len(rs) |-> [rs[n] EXCEPT !.latest = FALSE]]

\* handleParse, called by the effect on [file]: a FileReader whose onload
\* closes over the data array of the current render
handleParse(f) == [file |-> f, cur |-> TRUE, alias |-> {}]

Idle == [op |-> "mount", f |-> NoFile, run |-> 0, rows |-> {}, idx |-> 0,
         ok |-> FALSE, key |-> "", val |-> Empty,
         csv |-> Empty, href |-> Empty, download |-> "", threw |-> {}]

handleFileChangeNone ==
    /\ mounted
    /\ UNCHANGED <<mounted, listeners>>
    /\ nSelect < MaxSelect
    /\ nSelect' = nSelect + 1
    /\ error' = NoError
    /\ last' = [Idle EXCEPT !.op = "handleFileChange"]
    /\ UNCHANGED <<data, addAssetButtonName, disableAssetButtonName, file,
                   showResultButton, readers, runs, nClicks, nEdits>>

handleFileChange(f) ==
    /\ mounted
    /\ UNCHANGED <<mounted, listeners>>
    /\ nSelect < MaxSelect
    /\ nSelect' = nSelect + 1
    /\ last' = [Idle EXCEPT !.op = "handleFileChange", !.f = f]
    /\ IF ~TypeAllowed(f)
       THEN /\ error' = ErrNotCsv
            /\ UNCHANGED <<file, readers, showResultButton>>
       ELSE /\ error' = NoError
            /\ file' = f
            /\ readers' = Append(readers, handleParse(f))
            /\ showResultButton' = "none"
    /\ runs' = IF TypeAllowed(f) THEN Superseded(runs) ELSE runs
    /\ UNCHANGED <<data, addAssetButtonName, disableAssetButtonName,
                   nClicks, nEdits>>

----------------------------------------------------------------------------
(* reader.onload *)

\* mutation: the header check passes when any required key is present
HasSomeRequiredHeader(rec) ==
    \/ Has(rec, "Triplet Id")
    \/ Has(rec, "Asset Id")
    \/ Has(rec, "Asset Type")

HasRequiredHeaders(rec) ==
    /\ Has(rec, "Triplet Id")
    /\ Has(rec, "Asset Id")
    /\ Has(rec, "Asset Type")

\* mutation: the parsed rows are stored without a status of their own
dataWithStatusNone(parsedData) == parsedData

\* mutation: the initial status of the earlier variants
dataWithStatusPending(parsedData) ==
    [n \in 1..Len(parsedData) |-> Put(parsedData[n], "status", S("Pending"))]

\* parsedData.map((record) => ({ ...record, status: "Not Started" }))
dataWithStatus(parsedData) ==
    [n \in 1..Len(parsedData) |-> Put(parsedData[n], "status", NotStarted)]

Remove(seq, n) == SubSeq(seq, 1, n - 1) \o SubSeq(seq, n + 1, Len(seq))

\* data.length = 0 on the array the onload closure holds: the runs whose
\* closure holds the same array see it emptied
Truncate(rs, ids) ==
    [n \in 1..Len(rs) |->
        IF rs[n].id \in ids THEN [rs[n] EXCEPT !.data = <<>>] ELSE rs[n]]

\* history: the Dataset was replaced while these runs were under way
Replaced(rs) == [n \in 1..Len(rs) |-> [rs[n] EXCEPT !.fresh = FALSE]]

onload(n) ==
    LET rd == readers[n]
        parsedData == Files[rd.file].rows
    IN  /\ mounted
        /\ UNCHANGED <<mounted, listeners>>
        /\ last' = [Idle EXCEPT !.op = "onload", !.f = rd.file]
        /\ IF Len(parsedData) = 0
           THEN /\ readers' = Remove(readers, n)
                /\ UNCHANGED <<data, error, runs>>
           ELSE IF ~HasRequiredHeaders(parsedData[1])
           THEN /\ error' = ErrHeaders
                /\ runs' = Replaced(Truncate(runs, rd.alias))
                /\ data' = <<>>
                /\ readers' = Stale(Remove(readers, n))
           ELSE /\ data' = dataWithStatus(parsedData)
                /\ runs' = Replaced(runs)
                /\ readers' = Stale(Remove(readers, n))
                /\ UNCHANGED error
        /\ UNCHANGED <<addAssetButtonName, disableAssetButtonName, file,
                       showResultButton, nSelect, nClicks, nEdits>>

----------------------------------------------------------------------------
(* updateStatus, handleSendData, sendData *)

\* setData((prevData) => prevData.map((item, i) =>
\*     i === index ? { ...item, status } : item))
updateStatus(prevData, index, status) ==
    [i \in 1..Len(prevData) |->
        IF i = index THEN Put(prevData[i], "status", status) ELSE prevData[i]]

\* record[k]?.trim() !== "": undefined !== "" when the key is absent
NotBlank(record, k) ==
    IF Has(record, k) THEN Trim(Get(record, k)) # Empty ELSE TRUE

\* record[k]?.trim() === s
TrimIs(record, k, s) == Has(record, k) /\ Trim(Get(record, k)) = s

\* the condition of the if in the loop of handleSendData
RowValid(record) ==
    /\ NotBlank(record, "Triplet Id")
    /\ NotBlank(record, "Asset Id")
    /\ NotBlank(record, "Asset Type ")
    /\ \/ TrimIs(record, "Asset Type", S("SYSTEM"))
       \/ TrimIs(record, "Asset Type", S("SUPPLIER_SERVICE"))
       \/ TrimIs(record, "Asset Type", S("INDUSTRY_UTILITY"))

\* The loop of handleSendData from index i on, up to its next await or its
\* end.  cl is the data array of the closure, d the state array the queued
\* updateStatus calls are applied to.  rows collects the indices processed,
\* posts the requests issued (index and JSON body).
RECURSIVE Loop(_, _, _, _)
Loop(d, cl, i, rows) ==
    IF i > Len(cl)
    THEN [data |-> d, idx |-> i, pc |-> "done", rows |-> rows, posts |-> <<>>]
    ELSE IF RowValid(cl[i])
    THEN [data |-> updateStatus(d, i, InProgress), idx |-> i, pc |-> "await",
          rows |-> rows \cup {i},
          posts |-> << [idx |-> i, body |-> cl[i]] >>]
    ELSE Loop(updateStatus(d, i, DataIncorrect), cl, i + 1, rows \cup {i})

PostedIdx(posts) == {posts[n].idx : n \in 1..Len(posts)}

\* mutation: the submit button is never disabled
SubmitClickableNotDisabled == Len(data) > 0

\* the submit button is rendered when data.length > 0, with
\* disabled={disableAssetButtonName}
SubmitClickable == Len(data) > 0 /\ ~disableAssetButtonName

\* a reader whose closure holds the current state array shares it with the
\* handleSendData closure created by this click
Share(rds, id) ==
    [n \in 1..Len(rds) |->
        IF rds[n].cur
        THEN [rds[n] EXCEPT !.alias = @ \cup {id}]
        ELSE rds[n]]

\* the invocations that still have a request in flight
Active(rs) == SelectSeq(rs, LAMBDA r : r.pending # {})

\* A run of handleSendData: data is the array its closure holds, idx the
\* index of its loop, pending the indices whose request is in flight.
\* snap, seen, posted, fresh and latest are history: the rows the run was
\* started on, the indices it has processed, the requests it has issued,
\* whether the Dataset is still the one it was started on, and whether no
\* file was accepted since its click.
handleSendData ==
    /\ mounted
    /\ UNCHANGED <<mounted, listeners>>
    /\ SubmitClickable
    /\ nClicks < MaxClicks
    /\ nClicks' = nClicks + 1
    /\ LET id == nClicks + 1
           lp == Loop(data, data, 1, {})
       IN  /\ addAssetButtonName' = "Adding..."
           /\ disableAssetButtonName' = TRUE
           /\ data' = lp.data
           /\ runs' = Append(Active(runs),
                             [id |-> id, data |-> data, snap |-> data,
                              idx |-> lp.idx, pc |-> lp.pc,
                              pending |-> PostedIdx(lp.posts),
                              seen |-> lp.rows, posted |-> lp.posts,
                              fresh |-> TRUE, latest |-> TRUE])
           /\ readers' = Stale(Share(readers, id))
           /\ last' = [Idle EXCEPT !.op = "handleSendData", !.run = id,
                                   !.rows = lp.rows]
    /\ UNCHANGED <<error, file, showResultButton, nSelect, nEdits>>

\* mutation: a rejected request is not caught, the row stays In Progress
settledStatusNoCatch(ok) == IF ok THEN Success ELSE InProgress

\* mutation: a rejected request puts the row back to Not Started
settledStatusReset(ok) == IF ok THEN Success ELSE NotStarted

\* .then(() => updateStatus(index, "Success"))
\* .catch(() => updateStatus(index, "Failed"))
settledStatus(ok) == IF ok THEN Success ELSE Failed

\* index === data.length - 1, on the data array of the closure
IsLastIndex(r, index) == index = Len(r.data)

\* The request of run n for row index settles: the then / catch of
\* sendData, the rest of sendData, and the handleSendData that awaited it
\* up to its next await or its end.
sendDataSettles(n, index, ok) ==
    LET r == runs[n]
        d1 == updateStatus(data, index, settledStatus(ok))
        awaited == r.pc = "await" /\ r.idx = index
        lp == IF awaited
              THEN Loop(d1, r.data, index + 1, {})
              ELSE [data |-> d1, idx |-> r.idx, pc |-> r.pc, rows |-> {},
                    posts |-> <<>>]
    IN  /\ mounted
        /\ UNCHANGED <<mounted, listeners>>
        /\ index \in r.pending
        /\ data' = lp.data
        /\ IF IsLastIndex(r, index)
           THEN /\ showResultButton' = "inline"
                /\ addAssetButtonName' = "Add Assets"
                /\ disableAssetButtonName' = FALSE
           ELSE UNCHANGED <<showResultButton, addAssetButtonName,
                            disableAssetButtonName>>
        /\ runs' = [runs EXCEPT ![n] =
                      [r EXCEPT !.idx = lp.idx, !.pc = lp.pc,
                                !.pending = (@ \ {index}) \cup PostedIdx(lp.posts),
                                !.seen = @ \cup lp.rows,
                                !.posted = @ \o lp.posts]]
        /\ readers' = Stale(readers)
        /\ last' = [Idle EXCEPT !.op = "settle", !.run = r.id,
                                !.rows = lp.rows, !.idx = index, !.ok = ok]
        /\ UNCHANGED <<error, file, nSelect, nClicks, nEdits>>

----------------------------------------------------------------------------
(* handleInputChange *)

\* the table is rendered when error is empty and data.length > 0; the cells
\* of a row are its keys other than status
Editable(rowIndex, key) ==
    /\ error = NoError
    /\ rowIndex \in 1..Len(data)
    /\ Has(data[rowIndex], key)
    /\ key # "status"

\* mutation: the row test is missing, the cell is written in every row
editCellEveryRow(prevData, rowIndex, key, value) ==
    [i \in 1..Len(prevData) |-> Put(prevData[i], key, value)]

\* prevData.map((item, i) =>
\*     i === rowIndex ? { ...item, [key]: value } : item)
editCell(prevData, rowIndex, key, value) ==
    [i \in 1..Len(prevData) |->
        IF i = rowIndex THEN Put(prevData[i], key, value) ELSE prevData[i]]

handleInputChange(rowIndex, key, value) ==
    /\ mounted
    /\ UNCHANGED <<mounted, listeners>>
    /\ Editable(rowIndex, key)
    /\ nEdits < MaxEdits
    /\ nEdits' = nEdits + 1
    /\ data' = editCell(data, rowIndex, key, value)
    /\ readers' = Stale(readers)
    /\ last' = [Idle EXCEPT !.op = "handleInputChange", !.idx = rowIndex,
                            !.key = key, !.val = value]
    /\ UNCHANGED <<error, addAssetButtonName, disableAssetButtonName, file,
                   showResultButton, runs, nSelect, nClicks>>

----------------------------------------------------------------------------
(* The specification *)

----------------------------------------------------------------------------
(* handleDownloadCSV *)

RECURSIVE join(_, _)
\* Array.prototype.join on an array of strings
join(e, sep) ==
    IF Len(e) = 0 THEN Empty
    ELSE IF Len(e) = 1 THEN e[1]
    ELSE e[1] \o <<sep>> \o join(Tail(e), sep)

\* encodeURI over the characters that occur: a blank and a line break are
\* percent-encoded, a comma and the other characters are kept
encodeURI(str) ==
    [i \in 1..Len(str) |->
        CASE str[i] = Blank -> "%20"
          [] str[i] = "\n" -> "%0A"
          [] OTHER -> str[i]]

\* [Object.keys(data[0]), ...data.map((row) => Object.values(row))]
csvData(d) ==
    << [i \in 1..Len(d[1]) |-> S(Keys(d[1])[i])] >> \o
    [n \in 1..Len(d) |-> Values(d[n])]

csvContent(d) ==
    LET rows == csvData(d)
    IN  <<"data:text/csv;charset=utf-8,">> \o
        join([n \in 1..Len(rows) |-> join(rows[n], ",")], "\n")

DownloadClickable == Len(data) > 0 /\ showResultButton = "inline"

handleDownloadCSV ==
    /\ mounted
    /\ UNCHANGED <<mounted, listeners>>
    /\ DownloadClickable
    /\ last' = [Idle EXCEPT !.op = "handleDownloadCSV",
                            !.csv = csvContent(data),
                            !.href = encodeURI(csvContent(data)),
                            !.download = "result_data.csv"]
    /\ UNCHANGED <<data, error, addAssetButtonName, disableAssetButtonName,
                   file, showResultButton, readers, runs, nSelect, nClicks,
                   nEdits>>

----------------------------------------------------------------------------
(* useEffect(() => { window.addEventListener("beforeunload", ...);         *)
(*                   return () => window.removeEventListener(...) }, [])   *)

\* the function the effect registers
handleBeforeUnload == <<"beforeunload", "handleBeforeUnload">>

addEventListener(ls, l) == ls \cup {l}

\* mutation: the effect returns no cleanup
removeEventListenerNever(ls, l) == ls

removeEventListener(ls, l) == ls \ {l}

\* window.dispatchEvent of a beforeunload event: the handler calls
\* event.preventDefault() and sets event.returnValue = ""
dispatchBeforeUnload(ls) ==
    [defaultPrevented |-> handleBeforeUnload \in ls, returnValue |-> ""]

\* The component is unmounted: the cleanup of the effect runs. The state of
\* the component is kept as it was; what a callback sets after the unmount is
\* dropped, so no step of the component follows.
unmount ==
    /\ mounted
    /\ mounted' = FALSE
    /\ listeners' = removeEventListener(listeners, handleBeforeUnload)
    /\ last' = [Idle EXCEPT !.op = "unmount"]
    /\ UNCHANGED <<data, error, addAssetButtonName, disableAssetButtonName,
                   file, showResultButton, readers, runs, nSelect, nClicks,
                   nEdits>>

Init ==
    /\ data = <<>>
    /\ error = NoError
    /\ addAssetButtonName = "Add Assets"
    /\ disableAssetButtonName = FALSE
    /\ file = NoFile
    /\ showResultButton = "none"
    /\ readers = <<>>
    /\ runs = <<>>
    /\ mounted = TRUE
    /\ listeners = addEventListener({}, handleBeforeUnload)
    /\ nSelect = 0
    /\ nClicks = 0
    /\ nEdits = 0
    /\ last = Idle

Next ==
    \/ handleFileChangeNone
    \/ \E f \in FileIds : handleFileChange(f)
    \/ \E n \in 1..Len(readers) : onload(n)
    \/ handleSendData
    \/ \E n \in 1..Len(runs), ok \in BOOLEAN :
          \E index \in runs[n].pending : sendDataSettles(n, index, ok)
    \/ \E rowIndex \in 1..Len(data), e \in Edits :
          handleInputChange(rowIndex, e[1], e[2])

Spec == Init /\ [][Next]_vars

\* The same program with the unmount of the component.
NextLifecycle ==
    \/ Next
    \/ unmount

SpecLifecycle == Init /\ [][NextLifecycle]_vars

\* The same program with the clicks on "Download Result CSV", which change
\* nothing of the component's state.
NextDownload ==
    \/ Next
    \/ handleDownloadCSV

SpecDownload == Init /\ [][NextDownload]_vars

----------------------------------------------------------------------------
(* The earlier variants: src/unnamed/part_000 (handleSendData starts every *)
(* request at once) and src/src/App.tsx (handleSendData awaits each        *)
(* request). Apart from handleSendData and a button that downloads a fixed *)
(* sample, App.tsx has the lines of part_000. Neither has the submit       *)
(* button state, the header check, the local validation or the             *)
(* beforeunload effect. The body of a request is transformKeys(record); it *)
(* is not part of the state here.                                          *)

Pending == S("Pending")

\* the state variables these variants do not have
NoSuchState ==
    UNCHANGED <<addAssetButtonName, disableAssetButtonName, showResultButton,
                mounted, listeners>>

handleParse_000(f) == [file |-> f]

handleFileChangeNone_000 ==
    /\ nSelect < MaxSelect
    /\ nSelect' = nSelect + 1
    /\ error' = NoError
    /\ last' = [Idle EXCEPT !.op = "handleFileChange"]
    /\ UNCHANGED <<data, file, readers, runs, nClicks, nEdits>>
    /\ NoSuchState

handleFileChange_000(f) ==
    /\ nSelect < MaxSelect
    /\ nSelect' = nSelect + 1
    /\ last' = [Idle EXCEPT !.op = "handleFileChange", !.f = f]
    /\ IF ~TypeAllowed(f)
       THEN /\ error' = ErrNotCsv
            /\ UNCHANGED <<file, readers>>
       ELSE /\ error' = NoError
            /\ file' = f
            /\ readers' = Append(readers, handleParse_000(f))
    /\ UNCHANGED <<data, runs, nClicks, nEdits>>
    /\ NoSuchState

\* parsedData.map((record) => ({ ...record, status: "Pending" }))
dataWithStatus_000(parsedData) ==
    [n \in 1..Len(parsedData) |-> Put(parsedData[n], "status", Pending)]

onload_000(n) ==
    LET parsedData == Files[readers[n].file].rows
    IN  /\ readers' = Remove(readers, n)
        /\ last' = [Idle EXCEPT !.op = "onload", !.f = readers[n].file]
        /\ IF Len(parsedData) = 0
           THEN UNCHANGED <<data, runs>>
           ELSE /\ data' = dataWithStatus_000(parsedData)
                /\ runs' = Replaced(runs)
        /\ UNCHANGED <<error, file, nSelect, nClicks, nEdits>>
        /\ NoSuchState

\* mutation: the status is written to every row
updateStatusEveryRow_000(prevData, index, status) ==
    [i \in 1..Len(prevData) |-> Put(prevData[i], "status", status)]

updateStatus_000(prevData, index, status) ==
    [i \in 1..Len(prevData) |->
        IF i = index THEN Put(prevData[i], "status", status) ELSE prevData[i]]

\* the button is rendered when data.length > 0 and is never disabled
SendDataClickable == Len(data) > 0

----------------------------------------------------------------------------
(* transformKeys, in part_000 and App.tsx. An object is a sequence of       *)
(* <<key, value>>, a value being <<"str", s>> or <<"obj", o>> with o the    *)
(* nested object, whose values are strings.                                *)

\* the characters of a column name, "__" being one token
Spelling(key) ==
    CASE key = "geo__lat" -> <<"geo", "__", "lat">>
      [] key = "geo__lng" -> <<"geo", "__", "lng">>
      [] key = "geo__lat__deg" -> <<"geo", "__", "lat", "__", "deg">>
      [] key = "constructor__id" -> <<"constructor", "__", "id">>
      [] OTHER -> <<key>>

\* key.includes("__")
includes(key) == \E i \in 1..Len(Spelling(key)) : Spelling(key)[i] = "__"

RECURSIVE splitFrom(_)
\* the pieces of a spelling between its "__" tokens
splitFrom(sp) ==
    IF \A i \in 1..Len(sp) : sp[i] # "__"
    THEN << IF Len(sp) = 0 THEN "" ELSE sp[1] >>
    ELSE LET p == CHOOSE i \in 1..Len(sp) :
                      sp[i] = "__" /\ \A j \in 1..(i - 1) : sp[j] # "__"
         IN  << IF p = 1 THEN "" ELSE sp[1] >> \o
             splitFrom(SubSeq(sp, p + 1, Len(sp)))

\* key.split("__")
split(key) == splitFrom(Spelling(key))

\* the properties an empty object literal inherits, as far as a column name
\* of the model meets them: Object.prototype.constructor
ObjectPrototype == {"constructor"}

\* transformedRecord[parentKey]
Lookup(obj, k) ==
    IF Has(obj, k) THEN Get(obj, k)
    ELSE IF k \in ObjectPrototype THEN <<"function">>
    ELSE <<"undefined">>

\* !v
Falsy(v) == v[1] = "undefined" \/ (v[1] = "str" /\ v[2] = Empty)

\* One turn of the for...in loop. The module is strict code: setting a
\* property on a string throws a TypeError, which ends the loop.
transformStep(acc, key, value) ==
    IF acc.threw THEN acc
    ELSE IF includes(key)
    THEN LET parentKey == split(key)[1]
             nestedKey == split(key)[2]
             found == Lookup(acc.obj, parentKey)
             obj1 == IF Falsy(found)
                     THEN Put(acc.obj, parentKey, <<"obj", <<>> >>)
                     ELSE acc.obj
             parent == IF Falsy(found) THEN <<"obj", <<>> >> ELSE found
         IN  CASE parent[1] = "obj" ->
                    [threw |-> FALSE,
                     obj |-> Put(obj1, parentKey,
                                 <<"obj", Put(parent[2], nestedKey, value)>>)]
               [] parent[1] = "str" -> [threw |-> TRUE, obj |-> obj1]
               [] OTHER -> [threw |-> FALSE, obj |-> obj1]
    ELSE [threw |-> FALSE, obj |-> Put(acc.obj, key, <<"str", value>>)]

RECURSIVE transformFrom(_, _, _)
transformFrom(acc, record, n) ==
    IF n > Len(record) THEN acc
    ELSE transformFrom(transformStep(acc, record[n][1], record[n][2]),
                       record, n + 1)

transformKeys(record) ==
    transformFrom([threw |-> FALSE, obj |-> <<>>], record, 1)

\* A run of handleSendData: n is the length of the array its closure holds,
\* idx the index the awaiting loop is at, pending the indices whose request
\* is in flight, settled the outcomes of those that have settled, fresh
\* whether the Dataset is still the one of the click.
\* snap is the array the closure holds, posted the requests issued.
Run_000(id, idx, pending, posted) ==
    [id |-> id, n |-> Len(data), snap |-> data, idx |-> idx,
     pending |-> pending, posted |-> posted, settled |-> {}, fresh |-> TRUE]

\* the rows for which sendData ends in its catch before any request
Thrown(d) == {i \in 1..Len(d) : transformKeys(d[i]).threw}

RECURSIVE Loop_App(_, _, _, _)
\* The loop of handleSendData in App.tsx from index i on, up to its next
\* await of a request or its end: a sendData whose transformKeys throws
\* sets Failed and returns, and the loop goes on. d is the Dataset, cl the
\* array of the closure, rows the indices processed.
Loop_App(d, cl, i, rows) ==
    IF i > Len(cl)
    THEN [data |-> d, idx |-> i, pending |-> {}, rows |-> rows, posts |-> <<>>]
    ELSE IF transformKeys(cl[i]).threw
    THEN Loop_App(updateStatus_000(d, i, Failed), cl, i + 1, rows \cup {i})
    ELSE [data |-> d, idx |-> i, pending |-> {i}, rows |-> rows \cup {i},
          posts |-> << [idx |-> i, body |-> transformKeys(cl[i]).obj] >>]

\* part_000: data.forEach((record, index) => sendData(record, index));
\* each sendData runs up to its await of axios.post
handleSendData_000 ==
    /\ SendDataClickable
    /\ nClicks < MaxClicks
    /\ nClicks' = nClicks + 1
    /\ runs' = Append(runs,
           Run_000(nClicks + 1, Len(data) + 1, (1..Len(data)) \ Thrown(data),
                   SelectSeq([i \in 1..Len(data) |->
                                 [idx |-> i, body |-> transformKeys(data[i]).obj]],
                             LAMBDA p : p.idx \notin Thrown(data))))
    /\ data' = [i \in 1..Len(data) |->
                  IF i \in Thrown(data)
                  THEN Put(data[i], "status", Failed) ELSE data[i]]
    /\ last' = [Idle EXCEPT !.op = "handleSendData", !.run = nClicks + 1,
                            !.rows = 1..Len(data), !.threw = Thrown(data)]
    /\ UNCHANGED <<error, file, readers, nSelect, nEdits>>
    /\ NoSuchState

\* App.tsx: for (let i = 0; i < data.length; i++) await sendData(data[i], i);
\* up to the await of the first axios.post
handleSendData_App ==
    /\ SendDataClickable
    /\ nClicks < MaxClicks
    /\ nClicks' = nClicks + 1
    /\ LET lp == Loop_App(data, data, 1, {})
       IN  /\ runs' = Append(runs,
                  Run_000(nClicks + 1, lp.idx, lp.pending, lp.posts))
           /\ data' = lp.data
           /\ last' = [Idle EXCEPT !.op = "handleSendData",
                                   !.run = nClicks + 1, !.rows = lp.rows,
                                   !.threw = lp.rows \ lp.pending]
    /\ UNCHANGED <<error, file, readers, nSelect, nEdits>>
    /\ NoSuchState

\* the then / catch of sendData
sendDataSettles_000(n, index, ok) ==
    /\ index \in runs[n].pending
    /\ data' = updateStatus_000(data, index, IF ok THEN Success ELSE Failed)
    /\ runs' = [runs EXCEPT ![n].pending = @ \ {index},
                            ![n].settled = @ \cup {<<index, ok>>}]
    /\ last' = [Idle EXCEPT !.op = "settle", !.run = runs[n].id,
                            !.idx = index, !.ok = ok]
    /\ UNCHANGED <<error, file, readers, nSelect, nClicks, nEdits>>
    /\ NoSuchState

\* the then / catch of sendData, and the loop of handleSendData up to its
\* next await or its end
sendDataSettles_App(n, index, ok) ==
    LET d1 == updateStatus_000(data, index, IF ok THEN Success ELSE Failed)
        lp == Loop_App(d1, runs[n].snap, index + 1, {})
    IN  /\ index \in runs[n].pending
        /\ data' = lp.data
        /\ runs' = [runs EXCEPT
                      ![n].pending = lp.pending,
                      ![n].idx = lp.idx,
                      ![n].posted = @ \o lp.posts,
                      ![n].settled = @ \cup {<<index, ok>>}]
        /\ last' = [Idle EXCEPT !.op = "settle", !.run = runs[n].id,
                                !.idx = index, !.ok = ok, !.rows = lp.rows,
                                !.threw = lp.rows \ lp.pending]
        /\ UNCHANGED <<error, file, readers, nSelect, nClicks, nEdits>>
        /\ NoSuchState

\* the table is rendered when data.length > 0, with or without an error
handleInputChange_000(rowIndex, key, value) ==
    /\ rowIndex \in 1..Len(data)
    /\ Has(data[rowIndex], key)
    /\ key # "status"
    /\ nEdits < MaxEdits
    /\ nEdits' = nEdits + 1
    /\ data' = [i \in 1..Len(data) |->
                  IF i = rowIndex THEN Put(data[i], key, value) ELSE data[i]]
    /\ last' = [Idle EXCEPT !.op = "handleInputChange", !.idx = rowIndex,
                            !.key = key, !.val = value]
    /\ UNCHANGED <<error, file, readers, runs, nSelect, nClicks>>
    /\ NoSuchState

Init_000 ==
    /\ data = <<>>
    /\ error = NoError
    /\ file = NoFile
    /\ readers = <<>>
    /\ runs = <<>>
    /\ nSelect = 0
    /\ nClicks = 0
    /\ nEdits = 0
    /\ last = Idle
    /\ addAssetButtonName = ""
    /\ disableAssetButtonName = FALSE
    /\ showResultButton = "none"
    /\ mounted = TRUE
    /\ listeners = {}

Next_000 ==
    \/ handleFileChangeNone_000
    \/ \E f \in FileIds : handleFileChange_000(f)
    \/ \E n \in 1..Len(readers) : onload_000(n)
    \/ handleSendData_000
    \/ \E n \in 1..Len(runs), ok \in BOOLEAN :
          \E index \in runs[n].pending : sendDataSettles_000(n, index, ok)

\* part_000 without the cell edits
SpecConcurrent == Init_000 /\ [][Next_000]_vars

Next_App ==
    \/ handleFileChangeNone_000
    \/ \E f \in FileIds : handleFileChange_000(f)
    \/ \E n \in 1..Len(readers) : onload_000(n)
    \/ handleSendData_App
    \/ \E n \in 1..Len(runs), ok \in BOOLEAN :
          \E index \in runs[n].pending : sendDataSettles_App(n, index, ok)
    \/ \E rowIndex \in 1..Len(data), e \in Edits :
          handleInputChange_000(rowIndex, e[1], e[2])

SpecAwaiting == Init_000 /\ [][Next_App]_vars

----------------------------------------------------------------------------
(* The variants on Datasets with column names of every kind: the state     *)
(* after the import of a CSV whose header is a sequence of column names,   *)
(* with "__" or without, then the clicks on Send Data and the responses.   *)

MaxKeys == 2

KeyNames == {"geo", "geo__lat", "geo__lng", "geo__lat__deg", "constructor__id"}

\* the headers: sequences of distinct column names
Headers ==
    UNION {{h \in [1..n -> KeyNames] : \A i, j \in 1..n : h[i] = h[j] => i = j}
           : n \in 1..MaxKeys}

\* a parsed row: the cells at the positions in blank are empty, the others
\* hold a text of their own
Row(h, blank) ==
    [i \in 1..Len(h) |-> <<h[i], IF i \in blank THEN Empty ELSE <<"=", h[i]>> >>]

\* the parsed files: one row, or the row and a second one with no empty cell
Parsed_Keys ==
    UNION {{ <<Row(h, blank)>>, <<Row(h, blank), Row(h, {})>> }
           : h \in Headers, blank \in SUBSET (1..MaxKeys)}

\* the imported file, none of the catalogue
File_Keys == Len(Files) + 1

Init_Keys ==
    /\ data \in {dataWithStatus_000(parsedData) : parsedData \in Parsed_Keys}
    /\ error = NoError
    /\ file = File_Keys
    /\ readers = <<>>
    /\ runs = <<>>
    /\ nSelect = 0
    /\ nClicks = 0
    /\ nEdits = 0
    /\ last = Idle
    /\ addAssetButtonName = ""
    /\ disableAssetButtonName = FALSE
    /\ showResultButton = "none"
    /\ mounted = TRUE
    /\ listeners = {}

Next_Keys_000 ==
    \/ handleSendData_000
    \/ \E n \in 1..Len(runs), ok \in BOOLEAN :
          \E index \in runs[n].pending : sendDataSettles_000(n, index, ok)

SpecKeysConcurrent == Init_Keys /\ [][Next_Keys_000]_vars

Next_Keys_App ==
    \/ handleSendData_App
    \/ \E n \in 1..Len(runs), ok \in BOOLEAN :
          \E index \in runs[n].pending : sendDataSettles_App(n, index, ok)

SpecKeysAwaiting == Init_Keys /\ [][Next_Keys_App]_vars

----------------------------------------------------------------------------
(* Vocabulary of the claims *)

Required == {"Triplet Id", "Asset Id", "Asset Type"}
AllowedTypes == {S("SYSTEM"), S("SUPPLIER_SERVICE"), S("INDUSTRY_UTILITY")}
Terminal == {Success, Failed, DataIncorrect}
Statuses == {NotStarted, InProgress} \cup Terminal

\* a required field that is present and empty or only whitespace
BlankField(rec, k) == Has(rec, k) /\ Trim(Get(rec, k)) = Empty

\* local validation fails in the way C1 describes
LocallyInvalid(rec) ==
    \/ \E k \in Required : BlankField(rec, k)
    \/ Has(rec, "Asset Type") /\ Trim(Get(rec, "Asset Type")) \notin AllowedTypes

\* the three required fields are non-empty and the type is an allowed one
LocallyValid(rec) ==
    /\ \A k \in Required : Has(rec, k) /\ Trim(Get(rec, k)) # Empty
    /\ Trim(Get(rec, "Asset Type")) \in AllowedTypes

RunStep == last.op \in {"handleSendData", "settle"}
TheRun == runs[CHOOSE n \in 1..Len(runs) : runs[n].id = last.run]
PostsFor(r, i) == Cardinality({n \in 1..Len(r.posted) : r.posted[n].idx = i})
RowStatusIs(i, st) == i \in 1..Len(data) /\ Status(data[i]) = st
InFlight == UNION {{<<n, i>> : i \in runs[n].pending} : n \in 1..Len(runs)}

----------------------------------------------------------------------------
(* C1 - Whenever handleSendData processes a row whose Triplet Id, Asset Id *)
(* or Asset Type is blank, or whose Asset Type is not an allowed type,     *)
(* that row's status becomes Data Incorrect and no POST is issued for it.  *)
C1_InvalidRowDataIncorrect ==
    RunStep =>
        \A i \in last.rows :
            LocallyInvalid(TheRun.snap[i]) =>
                /\ RowStatusIs(i, DataIncorrect)
                /\ PostsFor(TheRun, i) = 0

(* C1, the part the code keeps in every run: no POST is ever issued for a  *)
(* row that fails local validation.                                        *)
C1_NoPostForInvalidRow ==
    \A n \in 1..Len(runs) : \A i \in 1..Len(runs[n].snap) :
        LocallyInvalid(runs[n].snap[i]) => PostsFor(runs[n], i) = 0

(* C1, in a run the Dataset is not replaced under: the row is marked.      *)
C1_FreshRunMarksInvalidRow ==
    (RunStep /\ TheRun.fresh) =>
        \A i \in last.rows :
            LocallyInvalid(TheRun.snap[i]) => RowStatusIs(i, DataIncorrect)

----------------------------------------------------------------------------
(* C2 - When a submission run has processed its last row and every request *)
(* has settled, the download-result button is visible, the submit button   *)
(* is labelled "Add Assets" again and is enabled, whatever the outcome of  *)
(* the last row.                                                           *)
C2_ButtonsRestoredAtEnd ==
    (RunStep /\ TheRun.pc = "done" /\ TheRun.pending = {}) =>
        /\ showResultButton = "inline"
        /\ addAssetButtonName = "Add Assets"
        /\ ~disableAssetButtonName

----------------------------------------------------------------------------
(* C3 - A locally valid row processed by handleSendData becomes In         *)
(* Progress and exactly one POST is issued for it; when its request        *)
(* settles its status is Success if the request succeeded and Failed if it *)
(* failed; a run that has ended has issued exactly one POST per locally    *)
(* valid row it was started on and none for the others.                    *)
C3_OnePostAndOutcome ==
    /\ RunStep =>
          \A i \in last.rows :
              LocallyValid(TheRun.snap[i]) =>
                  /\ RowStatusIs(i, InProgress)
                  /\ PostsFor(TheRun, i) = 1
    /\ last.op = "settle" =>
          RowStatusIs(last.idx, IF last.ok THEN Success ELSE Failed)
    /\ \A n \in 1..Len(runs) :
          /\ \A i \in 1..Len(runs[n].snap) : PostsFor(runs[n], i) <= 1
          /\ (runs[n].pc = "done" /\ runs[n].pending = {}) =>
                \A i \in 1..Len(runs[n].snap) :
                    PostsFor(runs[n], i) =
                        IF LocallyValid(runs[n].snap[i]) THEN 1 ELSE 0

(* C3, in a run the Dataset is not replaced under.                         *)
C3_FreshRunOnePostAndOutcome ==
    /\ (RunStep /\ TheRun.fresh) =>
          \A i \in last.rows :
              LocallyValid(TheRun.snap[i]) =>
                  /\ RowStatusIs(i, InProgress)
                  /\ PostsFor(TheRun, i) = 1
    /\ (last.op = "settle" /\ TheRun.fresh) =>
          RowStatusIs(last.idx, IF last.ok THEN Success ELSE Failed)
    /\ \A n \in 1..Len(runs) :
          (runs[n].pc = "done" /\ runs[n].pending = {} /\ runs[n].fresh) =>
              \A i \in 1..Len(runs[n].snap) :
                  /\ LocallyValid(runs[n].snap[i]) => PostsFor(runs[n], i) = 1
                  /\ LocallyInvalid(runs[n].snap[i]) => PostsFor(runs[n], i) = 0

\* the run whose array was emptied by data.length = 0 ends early
C3_TruncatedRun ==
    \E n \in 1..Len(runs) :
        /\ runs[n].data = <<>>
        /\ runs[n].pc = "done"
        /\ \E i \in 1..Len(runs[n].snap) : i \notin runs[n].seen

----------------------------------------------------------------------------
(* C4 - Rows are submitted strictly sequentially: at most one request is   *)
(* in flight at any time, the request in flight is that of the row the run *)
(* is waiting for, every earlier row of the run has been processed and no  *)
(* later row has, and the submit button is disabled while a request is in  *)
(* flight.                                                                 *)
C4_OneRequestInFlight ==
    /\ Cardinality(InFlight) <= 1
    /\ \A n \in 1..Len(runs) :
          LET r == runs[n]
          IN  /\ r.pending # {} =>
                    /\ r.pc = "await"
                    /\ r.pending = {r.idx}
                    /\ disableAssetButtonName
              /\ \A i \in PostedIdx(r.posted) : i <= r.idx
              /\ \A i \in r.seen : i <= r.idx

C4_Witness ==
    /\ Cardinality(InFlight) = 1
    /\ \E n \in 1..Len(runs) :
          /\ runs[n].pending = {2}
          /\ Len(runs[n].posted) = 2
          /\ ~runs[n].fresh

----------------------------------------------------------------------------
(* C5 - When a submission run has ended and the Dataset was not replaced   *)
(* by an import during the run, every row's status is Success, Failed or   *)
(* Data Incorrect.                                                         *)
C5_AllRowsTerminalAtEnd ==
    \A n \in 1..Len(runs) :
        (runs[n].pc = "done" /\ runs[n].pending = {} /\ runs[n].fresh) =>
            /\ Len(data) = Len(runs[n].snap)
            /\ \A i \in 1..Len(data) : Status(data[i]) \in Terminal

C5_Witness ==
    /\ last.op = "settle"
    /\ TheRun.pc = "done" /\ TheRun.fresh
    /\ RowStatusIs(1, Failed)
    /\ RowStatusIs(2, DataIncorrect)

----------------------------------------------------------------------------
(* C6 - Without a new file import a row's status only moves forward along  *)
(* Not Started -> In Progress -> {Success, Failed} or Not Started -> Data  *)
(* Incorrect: a row that is Success, Failed or Data Incorrect never        *)
(* changes status again, and no row returns to Not Started or goes from a  *)
(* terminal status back to In Progress.                                    *)
Forward(a, b) ==
    \/ a = b
    \/ a = NotStarted /\ b \in {InProgress, DataIncorrect}
    \/ a = InProgress /\ b \in {Success, Failed}

RunOf(rs, id) == rs[CHOOSE n \in 1..Len(rs) : rs[n].id = id]

\* a step other than an import, of a run the Dataset was not replaced under
NoImportStep ==
    /\ last'.op # "onload"
    /\ last'.op \in {"handleSendData", "settle"} => RunOf(runs', last'.run).fresh

SeenBefore ==
    IF last'.op = "settle" THEN RunOf(runs, last'.run).seen ELSE {}

----------------------------------------------------------------------------
(* C7 - Importing a CSV whose first parsed row lacks any of the keys       *)
(* Triplet Id, Asset Id, Asset Type sets the missing-headers message and   *)
(* leaves the Dataset empty, whatever it held before.                      *)
Parsed(f) == Files[f].rows

C7_MissingHeadersClearsDataset ==
    (/\ last.op = "onload"
     /\ Len(Parsed(last.f)) > 0
     /\ \E k \in Required : ~Has(Parsed(last.f)[1], k)) =>
        /\ error = ErrHeaders
        /\ data = <<>>

C7_Witness ==
    /\ last.op = "onload"
    /\ last.f = 3
    /\ nClicks > 0
    /\ error = ErrHeaders

----------------------------------------------------------------------------
(* C8 - Importing a CSV file that parses to zero records surfaces the      *)
(* error message "Empty file".                                             *)
C8_EmptyFileMessage ==
    (last.op = "onload" /\ Len(Parsed(last.f)) = 0) => error = "Empty file"

----------------------------------------------------------------------------
(* C9 - Selecting a file whose MIME subtype is not csv sets the message    *)
(* "Please input a csv file", starts no file read, and leaves the Dataset  *)
(* and the stored file as they were.                                       *)
IsCsvSubtype(f) == Len(Files[f].type) >= 2 /\ Files[f].type[2] = "csv"

C9_NotCsvRejected ==
    [][(/\ last'.op = "handleFileChange"
        /\ last'.f # NoFile
        /\ ~IsCsvSubtype(last'.f)) =>
          /\ error' = ErrNotCsv
          /\ data' = data
          /\ file' = file
          /\ readers' = readers
          /\ runs' = runs]_vars

C9_Witness ==
    /\ last.op = "handleFileChange"
    /\ last.f = 5
    /\ error = ErrNotCsv
    /\ file = 1
    /\ Len(data) = 2
    /\ readers = <<>>

----------------------------------------------------------------------------
(* C10 - A successful import replaces the Dataset wholesale: afterwards    *)
(* the Dataset is exactly the parsed rows of the new file, in file order   *)
(* and with their parsed cell values, and every row has status Not         *)
(* Started.                                                                *)
CellsOf(rec) == {p \in {rec[n] : n \in 1..Len(rec)} : p[1] # "status"}

C10_ImportReplacesDataset ==
    (/\ last.op = "onload"
     /\ Len(Parsed(last.f)) > 0
     /\ \A k \in Required : Has(Parsed(last.f)[1], k)) =>
        /\ Len(data) = Len(Parsed(last.f))
        /\ \A n \in 1..Len(data) :
              /\ CellsOf(data[n]) = CellsOf(Parsed(last.f)[n])
              /\ Has(data[n], "status")
              /\ Status(data[n]) = NotStarted
              /\ Len(data[n]) = Cardinality(CellsOf(data[n])) + 1

C10_Witness ==
    /\ last.op = "onload"
    /\ last.f = 2
    /\ \E n \in 1..Len(runs) : runs[n].pending # {} /\ ~runs[n].fresh
    /\ Len(data) = 2

----------------------------------------------------------------------------
(* C11 - handleInputChange(rowIndex, key, value) changes exactly the cell  *)
(* key of row rowIndex to value: the other cells of the row, its status,   *)
(* its keys and their order, every other row, the number and order of the  *)
(* rows, the error message and the button states are unchanged.            *)
C11_EditChangesOneCell ==
    [][last'.op = "handleInputChange" =>
          LET r == last'.idx
              k == last'.key
          IN  /\ r \in 1..Len(data)
              /\ Len(data') = Len(data)
              /\ Keys(data'[r]) = Keys(data[r])
              /\ Get(data'[r], k) = last'.val
              /\ \A c \in 1..Len(data[r]) :
                    data[r][c][1] # k => data'[r][c] = data[r][c]
              /\ \A i \in 1..Len(data) : i # r => data'[i] = data[i]
              /\ error' = error
              /\ addAssetButtonName' = addAssetButtonName
              /\ disableAssetButtonName' = disableAssetButtonName
              /\ showResultButton' = showResultButton]_vars

C11_Witness ==
    /\ last.op = "handleInputChange"
    /\ last.idx = 2
    /\ last.key = "Asset Type"
    /\ Len(data) = 2
    /\ Get(data[2], "Asset Type") = S("SYSTEM")
    /\ Get(data[1], "Asset Id") = <<"103", ",", "B">>
    /\ RowStatusIs(1, DataIncorrect)
    /\ RowStatusIs(2, InProgress)
    /\ InFlight # {}

----------------------------------------------------------------------------
(* C12 - a per-row failure never interrupts the run: once its requests     *)
(* have settled, a run has processed every row of the Dataset it was       *)
(* started on exactly once, the rows after a Failed or Data Incorrect row  *)
(* included.                                                               *)
Ended(r) == r.pc = "done" /\ r.pending = {}

PostedOnce(r) ==
    \A p, q \in 1..Len(r.posted) : r.posted[p].idx = r.posted[q].idx => p = q

C12_EveryRowProcessedOnce ==
    \A n \in 1..Len(runs) :
        Ended(runs[n]) =>
            /\ runs[n].seen = 1..Len(runs[n].snap)
            /\ PostedOnce(runs[n])

\* The rows a run skips are those of a closure array that reader.onload
\* emptied: a run whose array kept its rows processes all of them, whatever
\* the outcome of the earlier rows.
C12_UntruncatedRunProcessesEveryRow ==
    \A n \in 1..Len(runs) :
        (Ended(runs[n]) /\ runs[n].data = runs[n].snap) =>
            /\ runs[n].seen = 1..Len(runs[n].snap)
            /\ PostedOnce(runs[n])

\* a run went on after a Failed row and after a Data Incorrect row
C12_RunGoesOnAfterFailure ==
    /\ last.op = "settle"
    /\ Ended(TheRun)
    /\ Len(TheRun.snap) = 2
    /\ TheRun.seen = {1, 2}
    /\ RowStatusIs(1, Failed)
    /\ RowStatusIs(2, DataIncorrect)

----------------------------------------------------------------------------
(* C13 - handleDownloadCSV writes a header line made of the first record's *)
(* keys and then one line per record in Dataset order; in every line the   *)
(* i-th comma-separated field is the record's value for the i-th header    *)
(* key, so a line has as many fields as the header; the download is named  *)
(* result_data.csv.                                                        *)
RECURSIVE Split(_, _)
\* the pieces of str between the occurrences of sep
Split(str, sep) ==
    IF \A i \in 1..Len(str) : str[i] # sep THEN <<str>>
    ELSE LET p == CHOOSE i \in 1..Len(str) :
                      str[i] = sep /\ \A j \in 1..(i - 1) : str[j] # sep
         IN  <<SubSeq(str, 1, p - 1)>> \o Split(SubSeq(str, p + 1, Len(str)), sep)

\* the text of the file the browser saves: the data URI without its prefix
Saved(csv) == Tail(csv)

C13_DownloadIsDatasetAsCsv ==
    last.op = "handleDownloadCSV" =>
        LET lines == Split(Saved(last.csv), "\n")
            header == Keys(data[1])
        IN  /\ last.download = "result_data.csv"
            /\ Len(lines) = Len(data) + 1
            /\ Split(lines[1], ",") = [i \in 1..Len(header) |-> S(header[i])]
            /\ \A n \in 1..Len(data) :
                  LET fields == Split(lines[n + 1], ",")
                  IN  /\ Len(fields) = Len(header)
                      /\ \A i \in 1..Len(header) :
                            /\ Has(data[n], header[i])
                            /\ fields[i] = Get(data[n], header[i])

\* With records that all have the first record's keys and no comma in a
\* value, the lines are the records, field by field.
Regular(d) ==
    \A n \in 1..Len(d) :
        /\ Keys(d[n]) = Keys(d[1])
        /\ \A c \in 1..Len(d[n]) : \A i \in 1..Len(d[n][c][2]) : d[n][c][2][i] # ","

C13_RegularDatasetAsCsv ==
    (last.op = "handleDownloadCSV" /\ Regular(data)) =>
        LET lines == Split(Saved(last.csv), "\n")
            header == Keys(data[1])
        IN  /\ last.download = "result_data.csv"
            /\ Len(lines) = Len(data) + 1
            /\ Split(lines[1], ",") = [i \in 1..Len(header) |-> S(header[i])]
            /\ \A n \in 1..Len(data) :
                  Split(lines[n + 1], ",") =
                      [i \in 1..Len(header) |-> Get(data[n], header[i])]

C13_RegularDownload ==
    /\ last.op = "handleDownloadCSV"
    /\ Regular(data)
    /\ Len(data) = 2
    /\ RowStatusIs(1, Success)
    /\ RowStatusIs(2, DataIncorrect)

----------------------------------------------------------------------------
(* C14 - in every reachable state the Dataset is empty or every record has *)
(* a status field whose value is one of Not Started, In Progress, Success, *)
(* Failed, Data Incorrect.                                                 *)
C14_EveryRecordHasStatus ==
    \A n \in 1..Len(data) :
        /\ Has(data[n], "status")
        /\ Status(data[n]) \in Statuses

\* the file's own status column is overwritten, and a run that began on
\* another Dataset has written into this one
C14_Witness ==
    /\ \E n \in 1..Len(runs) : ~runs[n].fresh /\ runs[n].seen # {}
    /\ Len(data) = 2
    /\ Keys(data[1])[1] = "status"
    /\ Status(data[1]) \in Terminal
    /\ Status(data[2]) = DataIncorrect
    /\ last.op = "settle"

----------------------------------------------------------------------------
(* C15 - the beforeunload handler is installed from mount until unmount    *)
(* whatever the Dataset, the error and the submission state are: while the *)
(* component is mounted a beforeunload event is intercepted, after the     *)
(* unmount the handler is no longer registered.                            *)
C15_BeforeUnloadWhileMounted ==
    /\ mounted =>
          /\ handleBeforeUnload \in listeners
          /\ dispatchBeforeUnload(listeners).defaultPrevented
    /\ ~mounted =>
          /\ handleBeforeUnload \notin listeners
          /\ ~dispatchBeforeUnload(listeners).defaultPrevented

\* unmounted while a request is in flight and an error is displayed
C15_Witness ==
    /\ ~mounted
    /\ last.op = "unmount"
    /\ InFlight # {}
    /\ error # NoError
    /\ listeners = {}

\* mounted, with a Dataset, an error message and a request in flight
C15_MountedBusy ==
    /\ mounted
    /\ Len(data) > 0
    /\ error # NoError
    /\ InFlight # {}
    /\ dispatchBeforeUnload(listeners).defaultPrevented

----------------------------------------------------------------------------
(* C16 - a record in which one of the three required fields is absent (a   *)
(* CSV line shorter than the header) fails local validation: the run marks *)
(* it Data Incorrect and issues no POST for it.                            *)
Absent(rec) == {k \in Required : ~Has(rec, k)}

C16_AbsentFieldDataIncorrect ==
    (RunStep /\ TheRun.fresh) =>
        \A i \in last.rows :
            Absent(TheRun.snap[i]) # {} =>
                /\ PostsFor(TheRun, i) = 0
                /\ RowStatusIs(i, DataIncorrect)

\* the record without Triplet Id and Asset Id is posted as it is
C16_AbsentFieldPosted ==
    /\ last.op = "settle"
    /\ TheRun.fresh
    /\ \E n \in 1..Len(TheRun.posted) :
          /\ TheRun.posted[n].idx = 2
          /\ Absent(TheRun.snap[2]) = {"Triplet Id", "Asset Id"}
          /\ Keys(TheRun.posted[n].body) = <<"status", "Asset Type">>
    /\ RowStatusIs(2, Success)

----------------------------------------------------------------------------
(* C17 - local validation and the body of the POST use the row's fields as *)
(* they are in the Dataset when the row is processed: an edit made after   *)
(* the click and before the run reaches the row shows in the row's         *)
(* validation outcome and in the body sent for it.                         *)
BodyOf(r, i) == r.posted[CHOOSE n \in 1..Len(r.posted) : r.posted[n].idx = i].body

C17_RowProcessedAsInDataset ==
    (RunStep /\ TheRun.fresh) =>
        \A i \in last.rows :
            /\ PostsFor(TheRun, i) > 0 <=> RowValid(data[i])
            /\ PostsFor(TheRun, i) > 0 => CellsOf(BodyOf(TheRun, i)) = CellsOf(data[i])

\* A row reached in the step of the click is processed as it is in the
\* Dataset; a row reached later is processed as it was at the click.
C17_RowProcessedAsAtClick ==
    (RunStep /\ TheRun.fresh) =>
        \A i \in last.rows :
            /\ PostsFor(TheRun, i) > 0 <=> RowValid(TheRun.snap[i])
            /\ PostsFor(TheRun, i) > 0 => BodyOf(TheRun, i) = TheRun.snap[i]

\* the second row was edited to a valid one while the first was in flight
\* and is marked Data Incorrect all the same
C17_EditNotSeenByRun ==
    /\ last.op = "settle"
    /\ TheRun.fresh
    /\ 2 \in last.rows
    /\ RowValid(data[2])
    /\ RowStatusIs(2, DataIncorrect)
    /\ CellsOf(data[2]) # CellsOf(TheRun.snap[2])

----------------------------------------------------------------------------
(* C18 - while an import error message is displayed no row submission can  *)
(* be started: the submit button cannot be clicked and no POST is issued.  *)
ErrorDisplayed == error # NoError

\* the rows for which the step that led to this state issued a POST
PostedInStep == {i \in last.rows : PostsFor(TheRun, i) > 0}

C18_ErrorHaltsPipeline ==
    ErrorDisplayed =>
        /\ ~SubmitClickable
        /\ RunStep => PostedInStep = {}

\* the message for a wrong file type leaves the Dataset and the submit
\* button as they were: a click under the message posts rows
C18_SubmitUnderTypeError ==
    /\ error = ErrNotCsv
    /\ last.op = "handleSendData"
    /\ PostedInStep # {}

----------------------------------------------------------------------------
(* C19 - in part_000 one click on Send Data issues a POST for every row of *)
(* the Dataset without waiting for a response; in whatever order the       *)
(* responses arrive, once all have settled each row's status is Success if *)
(* its own request succeeded and Failed if it failed; a response for one   *)
(* row changes neither the status nor the cells of another row.            *)
OneClick == Len(runs) = 1 /\ runs[1].fresh

C19_AllPostedAtOnce ==
    last.op = "handleSendData" =>
        /\ TheRun.pending = 1..Len(data)
        /\ TheRun.settled = {}
        /\ Cardinality({p \in InFlight : p[1] = Len(runs)}) = Len(data)

C19_StatusIsOwnOutcome ==
    (OneClick /\ runs[1].pending = {}) =>
        \A i \in 1..Len(data) :
            /\ <<i, TRUE>> \in runs[1].settled <=> RowStatusIs(i, Success)
            /\ <<i, FALSE>> \in runs[1].settled <=> RowStatusIs(i, Failed)

\* rec with the status st in the place of its own
WithStatus(rec, st) ==
    [c \in 1..Len(rec) |-> IF rec[c][1] = "status" THEN <<"status", st>> ELSE rec[c]]

C19_ResponseWritesOwnStatus ==
    last'.op = "settle" =>
        IF last'.idx \in 1..Len(data)
        THEN data' = [data EXCEPT ![last'.idx] =
                         WithStatus(@, Status(data'[last'.idx]))]
        ELSE data' = data

C19_ConcurrentResponses ==
    /\ [](C19_AllPostedAtOnce /\ C19_StatusIsOwnOutcome)
    /\ [][C19_ResponseWritesOwnStatus]_vars

\* the response of the second row arrived first, the outcomes differ
C19_Witness ==
    /\ OneClick
    /\ runs[1].pending = {}
    /\ runs[1].settled = {<<1, FALSE>>, <<2, TRUE>>}
    /\ last.op = "settle"
    /\ last.idx = 1
    /\ RowStatusIs(1, Failed)
    /\ RowStatusIs(2, Success)

\* a second click while the requests of the first are in flight: each row
\* has two requests, and the status is the outcome of the later response
C19_TwoClicks ==
    /\ Len(runs) = 2
    /\ runs[1].fresh /\ runs[2].fresh
    /\ runs[1].pending = {} /\ runs[2].pending = {}
    /\ <<1, TRUE>> \in runs[1].settled
    /\ <<1, FALSE>> \in runs[2].settled
    /\ RowStatusIs(1, Success)

----------------------------------------------------------------------------
(* C20 - in src/src/App.tsx, under any sequence of Send Data clicks and    *)
(* response arrivals, at most one HTTP request is in flight.               *)
C20_OneRequestInFlight == Cardinality(InFlight) <= 1

\* One invocation of handleSendData has at most one request in flight and
\* issues them in index order; the button stays enabled, so a second click
\* starts a second invocation beside the first.
C20_OneRequestPerInvocation ==
    \A n \in 1..Len(runs) :
        /\ Cardinality(runs[n].pending) <= 1
        /\ \A i \in runs[n].pending :
              {p[1] : p \in runs[n].settled} = 1..(i - 1)

C20_TwoInvocations ==
    /\ last.op = "handleSendData"
    /\ Len(runs) = 2
    /\ runs[1].fresh /\ runs[2].fresh
    /\ runs[1].pending = {2}
    /\ runs[2].pending = {1}

----------------------------------------------------------------------------
(* C21 - the body transformKeys builds carries every field of the row: for *)
(* a key without "__" body[key] is the row's value, for a key              *)
(* parent__nested body[parent][nested] is the row's value, and no value is *)
(* dropped or overwritten, whatever the column names are.                  *)
RECURSIVE Leaves(_)
\* the number of string values in an object, nested ones included
Leaves(obj) ==
    IF Len(obj) = 0 THEN 0
    ELSE (IF obj[1][2][1] = "obj" THEN Len(obj[1][2][2]) ELSE 1) + Leaves(Tail(obj))

Carried(body, key, value) ==
    IF ~includes(key)
    THEN /\ Has(body, key)
         /\ Get(body, key)[1] = "str"
         /\ Get(body, key)[2] = value
    ELSE Len(split(key)) = 2 =>
            /\ Has(body, split(key)[1])
            /\ Get(body, split(key)[1])[1] = "obj"
            /\ Has(Get(body, split(key)[1])[2], split(key)[2])
            /\ Get(Get(body, split(key)[1])[2], split(key)[2]) = value

CarriesEveryField(body, record) ==
    /\ \A c \in 1..Len(record) : Carried(body, record[c][1], record[c][2])
    /\ Leaves(body) = Len(record)

C21_BodyCarriesEveryField ==
    /\ last.threw = {}
    /\ \A n \in 1..Len(runs) : \A p \in 1..Len(runs[n].posted) :
          CarriesEveryField(runs[n].posted[p].body,
                            runs[n].snap[runs[n].posted[p].idx])

\* The column names whose places in the body are distinct: no name is the
\* parent of another, none has a second "__", none has a parent that an
\* empty object inherits.
DistinctPaths(record) ==
    \A c \in 1..Len(record) :
        includes(record[c][1]) =>
            /\ Len(split(record[c][1])) = 2
            /\ split(record[c][1])[1] \notin ObjectPrototype
            /\ ~Has(record, split(record[c][1])[1])

C21_DistinctPathsCarried ==
    /\ \A i \in last.threw : ~DistinctPaths(data[i])
    /\ \A n \in 1..Len(runs) : \A p \in 1..Len(runs[n].posted) :
          DistinctPaths(runs[n].snap[runs[n].posted[p].idx]) =>
              CarriesEveryField(runs[n].posted[p].body,
                                runs[n].snap[runs[n].posted[p].idx])

\* two columns nested under one parent, both in the body
C21_NestedBody ==
    /\ last.op = "handleSendData"
    /\ Keys(data[1]) = <<"geo__lat", "geo__lng", "status">>
    /\ PostsFor(TheRun, 1) = 1
    /\ Keys(BodyOf(TheRun, 1)) = <<"geo", "status">>
    /\ Keys(Get(BodyOf(TheRun, 1), "geo")[2]) = <<"lat", "lng">>

\* the column geo holds a text and geo__lat follows: no request, Failed
C21_Throws ==
    /\ last.op = "handleSendData"
    /\ Keys(data[1]) = <<"geo", "geo__lat", "status">>
    /\ 1 \in last.threw
    /\ PostsFor(TheRun, 1) = 0
    /\ RowStatusIs(1, Failed)

----------------------------------------------------------------------------
(* C22 - the status updates of a submission run apply only to the Dataset  *)
(* the run was started on: after the import of a new file no record of the *)
(* new Dataset has its status changed by an earlier run, and every new     *)
(* record stays Not Started until a run is started on the new Dataset.     *)
StaleStep ==
    /\ last'.op \in {"handleSendData", "settle"}
    /\ ~RunOf(runs', last'.run).fresh

NoRunOnDataset == \A n \in 1..Len(runs) : ~runs[n].fresh

C22_NewRecordsNotStarted ==
    NoRunOnDataset => \A i \in 1..Len(data) : Status(data[i]) = NotStarted

C22_StaleStepLeavesDataset == StaleStep => data' = data

C22_StatusOnlyFromOwnRun ==
    /\ []C22_NewRecordsNotStarted
    /\ [][C22_StaleStepLeavesDataset]_vars

\* What an earlier run does to the new Dataset is the status at the index
\* of its response and at the indices it goes on with: the number of
\* records and every other cell stay.
C22_StaleStepWritesStatuses ==
    StaleStep =>
        data' = [i \in 1..Len(data) |->
                    IF i \in last'.rows \cup {last'.idx}
                    THEN WithStatus(data[i], Status(data'[i]))
                    ELSE data[i]]

C22_StaleRunWritesStatusOnly == [][C22_StaleStepWritesStatuses]_vars

\* a response of the earlier run has marked a record of the new Dataset,
\* on which no run was started
C22_StaleRunMarksNewRecord ==
    /\ NoRunOnDataset
    /\ last.op = "settle"
    /\ \E i \in 1..Len(data) : Status(data[i]) \in Terminal

----------------------------------------------------------------------------
(* C23 - after handleFileChange has accepted a new file the download       *)
(* button is hidden, and it stays hidden until a submission run started on *)
(* the newly imported Dataset has completed its last row.                  *)
Accepted == last'.op = "handleFileChange" /\ last'.f # NoFile /\ TypeAllowed(last'.f)

Shown == showResultButton = "none" /\ showResultButton' = "inline"

C23_HiddenAtAcceptance == Accepted => showResultButton' = "none"

\* a run started on the Dataset of the accepted file was started after the
\* acceptance
C23_ShownByRunOnDataset ==
    Shown =>
        /\ last'.op = "settle"
        /\ RunOf(runs', last'.run).latest

C23_HiddenUntilRunOnNewDataset ==
    [][C23_HiddenAtAcceptance /\ C23_ShownByRunOnDataset]_vars

\* The button is hidden by every acceptance, and shown only by the response
\* for the last row of the array some run has closed over.
C23_ShownByLastRowOfSomeRun ==
    Shown =>
        /\ last'.op = "settle"
        /\ IsLastIndex(RunOf(runs, last'.run), last'.idx)

C23_HiddenUntilLastRowOfSomeRun ==
    [][C23_HiddenAtAcceptance /\ C23_ShownByLastRowOfSomeRun]_vars

\* the last response of a run on the Dataset that was replaced shows the
\* button over the new Dataset, on which no run was started
C23_ShownByStaleRun ==
    /\ showResultButton = "inline"
    /\ last.op = "settle"
    /\ ~TheRun.latest
    /\ NoRunOnDataset
    /\ readers = <<>>
    /\ \A i \in 1..Len(data) : Status(data[i]) = NotStarted \/ i = last.idx

\* the second file is accepted and not read yet: the run on the first
\* Dataset ends and shows the button
C23_ShownBeforeNewDataset ==
    /\ showResultButton = "inline"
    /\ last.op = "settle"
    /\ ~TheRun.latest
    /\ nSelect = 2
    /\ file = 1
    /\ Len(readers) = 1 /\ readers[1].file = 1
    /\ Len(data) = Len(Files[2].rows)
    /\ \A i \in 1..Len(data) : CellsOf(data[i]) = CellsOf(Files[2].rows[i])

----------------------------------------------------------------------------
(* C24 - when two CSV files are selected one after the other and both      *)
(* reads have completed, in either order, the Dataset and the error        *)
(* message reflect the file selected last, never the earlier one.          *)

\* the Dataset onload leaves for the file f, which has rows
Imported(f) ==
    IF HasRequiredHeaders(Parsed(f)[1]) THEN dataWithStatus(Parsed(f)) ELSE <<>>

\* two selections, every read completed, nothing else done; file is the
\* file accepted last
BothRead ==
    /\ nSelect = 2
    /\ readers = <<>>
    /\ nClicks = 0
    /\ nEdits = 0
    /\ file # NoFile
    /\ Len(Parsed(file)) > 0

C24_LatestFileWins ==
    BothRead =>
        /\ data = Imported(file)
        /\ error = ErrHeaders => ~HasRequiredHeaders(Parsed(file)[1])

\* The Dataset is that of the file whose read completed last.
C24_LastReadWins ==
    (/\ last.op = "onload"
     /\ nClicks = 0
     /\ nEdits = 0
     /\ Len(Parsed(last.f)) > 0) =>
        /\ data = Imported(last.f)
        /\ ~HasRequiredHeaders(Parsed(last.f)[1]) => error = ErrHeaders

\* the read of the first file completed after the read of the second:
\* the Dataset is that of the first file
C24_EarlierFileWins ==
    /\ BothRead
    /\ last.op = "onload"
    /\ last.f = 2
    /\ file = 1
    /\ data = Imported(2)
    /\ data # Imported(1)

\* the first file has no required header and is read last: its error is
\* displayed and the Dataset of the second file is cleared
C24_EarlierFileError ==
    /\ BothRead
    /\ last.op = "onload"
    /\ HasRequiredHeaders(Parsed(file)[1])
    /\ error = ErrHeaders
    /\ data = <<>>

====
